---- MODULE Spec2Model ----
(***************************************************************************)
(* The routes of the AI news aggregator.                                   *)
(*                                                                         *)
(* Spec, SpecPipe, SpecCap: the aggregation route (app/api/reddit/route.ts,*)
(* PullPush variant): GET parses the query, resolves the target            *)
(* subreddits, fans out one fetchSubreddit per target, joins them with     *)
(* Promise.allSettled, merges, deduplicates, sorts and truncates.          *)
(*                                                                         *)
(* SpecAuth: the OAuth variant of the same route (route.ts 1-241), whose   *)
(* getAccessToken keeps a module-level token cache, under two invocations  *)
(* that overlap.                                                           *)
(*                                                                         *)
(* SpecProxy, SpecProxyLive: the single-subreddit proxy with the abort     *)
(* timer (src/unnamed/part_002).                                           *)
(*                                                                         *)
(* SpecAuthFan: the OAuth variant under one request at a time, for up to   *)
(* five subreddits.  SpecOProxy: the single-subreddit proxy with its own   *)
(* token cache (src/unnamed/part_004), under two invocations that overlap. *)
(*                                                                         *)
(* SpecNorm: normalizePost on the thumbnails upstream may send.            *)
(*                                                                         *)
(* SpecUI, SpecCountdown: the front end (app/components/NewsAggregator.tsx)*)
(* under clicks, the refresh interval, the countdown's interval and the    *)
(* answers of /api/reddit in any order.                                    *)
(*                                                                         *)
(* Strings that the code takes apart (the subreddit and limit parameters)  *)
(* are sequences of tokens: a subreddit name, "all" and "bogus" stand for  *)
(* a whole word, "," and " " for themselves, "-" and "0".."9" for the      *)
(* characters of a number.                                                 *)
(***************************************************************************)
EXTENDS Integers, Sequences, FiniteSets, TLC

\* ---------------------------------------------------------------- bounds
MaxParamLen == 3   \* tokens in the subreddit parameter
MaxItems == 1      \* submissions in one upstream listing (Spec)
PipeItems == 3     \* submissions over the listings of one request (SpecPipe)
MaxClock == 2      \* ticks of the clock (SpecAuth)
MaxGrants == 2     \* tokens the authorisation server issues (SpecAuth)
MaxThumbLen == 3   \* tokens in an upstream thumbnail (SpecNorm)
MaxCalls == 3      \* calls of fetchPosts in one behaviour (SpecUI, SpecCountdown)

\* ------------------------------------------------------------- the state
VARIABLES
  request,           \* the query of the request GET was called with
  phase,             \* "idle", "fetching" (suspended in the await), "done"
  subredditParam,    \* GET's locals
  safeSort,
  limit,
  targetSubreddits,
  fetches,           \* the upstream requests issued, in order
  results,           \* the promises handed to Promise.allSettled
  firstSettled,      \* history: index of the promise that settled first, or 0
  response,
  clock,             \* Date.now(), in ms (both OAuth routes, the front end)
  credentials,       \* REDDIT_CLIENT_ID and REDDIT_CLIENT_SECRET are both set
  cachedToken,       \* the module-level token cache of the OAuth route:
  tokenExpiresAt,    \*   token (0 for null) and expiry in Unix ms
  grants,            \* history: per token issued, the call it was issued to
  calls,             \* the invocations of the OAuth route's GET in flight
  proxy,             \* the invocation of the proxy route's GET
  raw,               \* the upstream submission handed to normalizePost
  normalized,        \* the item normalizePost returned for it, once called
  ui,                \* the React state of NewsAggregator
  inflight,          \* the calls of fetchPosts suspended in an await
  callCount,         \* history: the number of calls of fetchPosts so far
  latest,            \* history: how the call started last has ended
  tokenCache,        \* the module-level token cache of the OAuth proxy
  visits             \* the invocations of the OAuth proxy's GET in flight

aggVars == <<request, phase, subredditParam, safeSort, limit, targetSubreddits,
             fetches, results, firstSettled, response>>

authVars == <<clock, credentials, cachedToken, tokenExpiresAt, grants, calls>>

proxyVars == <<proxy>>

normVars == <<raw, normalized>>

uiVars == <<ui, inflight, callCount, latest>>

oproxyVars == <<tokenCache, visits>>

\* the state of the parts that the three routes above never touch
restVars == <<normVars, uiVars, oproxyVars>>

vars == <<aggVars, authVars, proxyVars, restVars>>

\* ------------------------------------------------------ program constants
SUBREDDITS == <<"artificial", "ChatGPT", "LocalLLaMA", "singularity", "OpenAI">>

DefaultLimit == <<"5", "0">>
LimitCap == 100
validSorts == <<"hot", "new", "top">>

\* ----------------------------------------------------------- JS helpers
Range(s) == {s[i] : i \in 1..Len(s)}

Includes(s, x) == \E i \in 1..Len(s) : s[i] = x

Min(a, b) == IF a < b THEN a ELSE b

Max(a, b) == IF a > b THEN a ELSE b

\* Math.ceil(a / b) for b > 0
Ceil(a, b) == -((-a) \div b)

Digits == <<"0", "1", "2", "3", "4", "5", "6", "7", "8", "9">>

DigitValue(c) == (CHOOSE i \in 1..10 : Digits[i] = c) - 1

IsDigit(c) == Includes(Digits, c)

\* the value of the longest prefix of digits of s, after acc
RECURSIVE DigitsValue(_, _)
DigitsValue(s, acc) ==
  IF s = <<>> \/ ~IsDigit(Head(s)) THEN acc
  ELSE DigitsValue(Tail(s), acc * 10 + DigitValue(Head(s)))

\* parseInt(s, 10) for a string with at least one digit after the sign
ParseInt(s) ==
  IF s # <<>> /\ Head(s) = "-" THEN -DigitsValue(Tail(s), 0)
  ELSE DigitsValue(s, 0)

\* String.prototype.split(',')
RECURSIVE Split(_, _)
Split(s, cur) ==
  IF s = <<>> THEN <<cur>>
  ELSE IF Head(s) = "," THEN <<cur>> \o Split(Tail(s), <<>>)
  ELSE Split(Tail(s), Append(cur, Head(s)))

RECURSIVE TrimStart(_)
TrimStart(s) == IF s # <<>> /\ Head(s) = " " THEN TrimStart(Tail(s)) ELSE s

RECURSIVE TrimEnd(_)
TrimEnd(s) ==
  IF s # <<>> /\ s[Len(s)] = " " THEN TrimEnd(SubSeq(s, 1, Len(s) - 1)) ELSE s

\* String.prototype.trim()
Trim(s) == TrimEnd(TrimStart(s))

\* split(',').map((s) => s.trim())
TrimAll(parts) == [i \in 1..Len(parts) |-> Trim(parts[i])]

\* slice(0, end) with the element at end kept as well
SliceInclusive(s, end) ==
  LET stop == IF end < 0 THEN Max(Len(s) + end + 1, 0) ELSE Min(end + 1, Len(s))
  IN SubSeq(s, 1, stop)

\* Array.prototype.slice(0, end)
Slice(s, end) ==
  LET stop == IF end < 0 THEN Max(Len(s) + end, 0) ELSE Min(end, Len(s))
  IN SubSeq(s, 1, stop)

\* ------------------------------------------------------- source client
\* what is no string: a field the upstream JSON lacks, and null; a string is
\* a sequence of tokens, and neither word is a token of any string
Undefined == <<"undefined">>

Null == <<"null">>

\* a string in a condition: undefined and "" count as false
Truthy(s) == s # Undefined /\ s # <<>>

\* String.prototype.startsWith
StartsWith(s, prefix) ==
  Len(s) >= Len(prefix) /\ SubSeq(s, 1, Len(prefix)) = prefix

\* one upstream submission, as normalizePost reads it
Submission(id, sub, score, created) ==
  [id |-> id, subreddit |-> sub, score |-> score, created_utc |-> created,
   thumbnail |-> Undefined]

invalidThumbnails ==
  << <<"self">>, <<"default">>, <<"nsfw">>, <<"spoiler">>, <<>>, <<"image">> >>

\* raw.thumbnail && !invalidThumbnails.includes(raw.thumbnail) &&
\* raw.thumbnail.startsWith('http') ? raw.thumbnail : null
thumbnail(submission) ==
  IF /\ Truthy(submission.thumbnail)
     /\ ~Includes(invalidThumbnails, submission.thumbnail)
     /\ StartsWith(submission.thumbnail, <<"http">>)
    THEN submission.thumbnail
  ELSE Null

normalizePost(submission) ==
  [id |-> submission.id, subreddit |-> submission.subreddit,
   score |-> submission.score, createdAt |-> submission.created_utc,
   thumbnail |-> thumbnail(submission)]

toSortType(sort) ==
  IF sort = "new" THEN "created_utc"
  ELSE IF sort = "top" THEN "score"
  ELSE "score"

\* the request fetchSubreddit sends upstream
fetchRequest(subreddit, sort, lim) ==
  [subreddit |-> subreddit, sort |-> "desc", sort_type |-> toSortType(sort),
   size |-> lim]

Pending == [status |-> "pending", value |-> <<>>, reason |-> <<>>]

\* the promise of fetchSubreddit, settled with the upstream reply
fetchSubreddit(subreddit, reply) ==
  IF ~reply.ok
    THEN [status |-> "rejected", value |-> <<>>,
          reason |-> <<"PullPush fetch failed for r/", subreddit, reply.status>>]
  ELSE IF ~reply.isArray
    THEN [status |-> "rejected", value |-> <<>>,
          reason |-> <<"Unexpected PullPush response for r/", subreddit, 0>>]
  ELSE [status |-> "fulfilled",
        value |-> [i \in 1..Len(reply.data) |-> normalizePost(reply.data[i])],
        reason |-> <<>>]

\* ----------------------------------------------------------- aggregator
\* searchParams.get(name) || fallback
OrDefault(param, fallback) == IF param = <<>> THEN fallback ELSE param

parseLimit(limitParam) == Min(ParseInt(OrDefault(limitParam, DefaultLimit)), LimitCap)

\* the sort parameter taken as it comes, without the test against validSorts
parseSortUnchecked(sortParam) ==
  IF sortParam = "" THEN "hot" ELSE sortParam

parseSort(sortParam) ==
  LET sort == IF sortParam = "" THEN "hot" ELSE sortParam
  IN IF Includes(validSorts, sort) THEN sort ELSE "hot"

IsAll(param) == param = <<"all">>

IsSubreddit(s) == \E i \in 1..Len(SUBREDDITS) : s = <<SUBREDDITS[i]>>

\* the explicit list cut down to its first recognised entry (find for filter)
resolveFirstOnly(param) ==
  IF IsAll(param) THEN SUBREDDITS
  ELSE LET parts == TrimAll(Split(param, <<>>))
           kept == SelectSeq(parts, IsSubreddit)
       IN IF kept = <<>> THEN <<>> ELSE <<kept[1][1]>>

\* an explicit list without a recognised entry treated like "all"
resolveLenient(param) ==
  IF IsAll(param) THEN SUBREDDITS
  ELSE LET parts == TrimAll(Split(param, <<>>))
           kept == SelectSeq(parts, IsSubreddit)
       IN IF kept = <<>> THEN SUBREDDITS ELSE [i \in 1..Len(kept) |-> kept[i][1]]

\* the explicit list with every subreddit named once (a Set for the array)
resolveDistinct(param) ==
  IF IsAll(param) THEN SUBREDDITS
  ELSE LET parts == TrimAll(Split(param, <<>>))
           kept == SelectSeq(parts, IsSubreddit)
           fresh(i) == \A j \in 1..(i - 1) : kept[j] # kept[i]
           firsts == SelectSeq([i \in 1..Len(kept) |-> i], fresh)
       IN [k \in 1..Len(firsts) |-> kept[firsts[k]][1]]

resolveTargets(param) ==
  IF IsAll(param) THEN SUBREDDITS
  ELSE LET parts == TrimAll(Split(param, <<>>))
           kept == SelectSeq(parts, IsSubreddit)
       IN [i \in 1..Len(kept) |-> kept[i][1]]

\* the division rounded down: Math.floor for Math.ceil
perLimitFloor(param, lim, n) ==
  IF IsAll(param) THEN lim \div n ELSE lim

perLimit(param, lim, n) ==
  IF IsAll(param) THEN Ceil(lim, n) ELSE lim

\* the loop over the settled results: fulfilled values in result order
RECURSIVE mergePosts(_)
mergePosts(rs) ==
  IF rs = <<>> THEN <<>>
  ELSE IF Head(rs).status = "fulfilled" THEN Head(rs).value \o mergePosts(Tail(rs))
  ELSE mergePosts(Tail(rs))

\* only the first failure reported
mergeErrorsFirst(rs) ==
  LET failed == {i \in 1..Len(rs) : rs[i].status # "fulfilled"}
  IN IF failed = {} THEN <<>>
     ELSE <<rs[CHOOSE i \in failed : \A j \in failed : i <= j].reason>>

RECURSIVE mergeErrors(_)
mergeErrors(rs) ==
  IF rs = <<>> THEN <<>>
  ELSE IF Head(rs).status = "fulfilled" THEN mergeErrors(Tail(rs))
  ELSE <<Head(rs).reason>> \o mergeErrors(Tail(rs))

\* seen holding the last id only: duplicates removed only when adjacent
RECURSIVE dedupAdjacentFrom(_, _)
dedupAdjacentFrom(ps, last) ==
  IF ps = <<>> THEN <<>>
  ELSE IF Head(ps).id \in last THEN dedupAdjacentFrom(Tail(ps), last)
  ELSE <<Head(ps)>> \o dedupAdjacentFrom(Tail(ps), {Head(ps).id})

dedupAdjacent(ps) == dedupAdjacentFrom(ps, {})

\* posts.filter with the seen set: seen holds the ids of all the posts in
\* front, so a post is kept unless a post in front of it has its id
dedup(ps) ==
  LET unseen(i) == \A j \in 1..(i - 1) : ps[j].id # ps[i].id
      kept == SelectSeq([i \in 1..Len(ps) |-> i], unseen)
  IN [k \in 1..Len(kept) |-> ps[kept[k]]]

\* the comparator without its branch for sort=new
compareScore(sort, a, b) == b.score - a.score

\* the comparator handed to Array.prototype.sort
compare(sort, a, b) ==
  IF sort = "new" THEN b.createdAt - a.createdAt ELSE b.score - a.score

\* a sort that is not stable: posts that compare equal come out in the
\* opposite order
sortPostsUnstable(ps, sort) ==
  LET n == Len(ps)
      before(j, i) ==
        \/ compare(sort, ps[j], ps[i]) < 0
        \/ compare(sort, ps[j], ps[i]) = 0 /\ j > i
      place == [i \in 1..n |-> 1 + Cardinality({j \in 1..n : before(j, i)})]
  IN [p \in 1..n |-> ps[CHOOSE i \in 1..n : place[i] = p]]

\* Array.prototype.sort(compare), a stable sort: a post comes after the posts
\* that compare before it and after the posts in front of it that compare
\* equal to it
sortPosts(ps, sort) ==
  LET n == Len(ps)
      before(j, i) ==
        \/ compare(sort, ps[j], ps[i]) < 0
        \/ compare(sort, ps[j], ps[i]) = 0 /\ j < i
      place == [i \in 1..n |-> 1 + Cardinality({j \in 1..n : before(j, i)})]
  IN [p \in 1..n |-> ps[CHOOSE i \in 1..n : place[i] = p]]

\* Promise.all in place of Promise.allSettled: over at the first rejection
allOrFirstRejected(rs) ==
  \/ \A i \in 1..Len(rs) : rs[i].status = "fulfilled"
  \/ \E i \in 1..Len(rs) : rs[i].status = "rejected"

\* Promise.allSettled resolves once no promise is pending
allSettled(rs) == \A i \in 1..Len(rs) : rs[i].status # "pending"

\* the outcomes in the order of arrival: the first settled promise in front
settledByArrival(rs) ==
  IF firstSettled \in 1..Len(rs)
    THEN <<rs[firstSettled]>> \o SubSeq(rs, 1, firstSettled - 1)
           \o SubSeq(rs, firstSettled + 1, Len(rs))
    ELSE rs

\* what the await yields: the outcomes in the order of the promises
settledResults(rs) == rs

NoMeta == [subreddits |-> <<>>, sort |-> "", count |-> 0]

NoResponse ==
  [status |-> 0, error |-> "", posts |-> <<>>, hasErrors |-> FALSE,
   errors |-> <<>>, hasMeta |-> FALSE, meta |-> NoMeta]

invalidSubreddit ==
  [status |-> 400, error |-> "Invalid subreddit(s) specified", posts |-> <<>>,
   hasErrors |-> FALSE, errors |-> <<>>, hasMeta |-> FALSE, meta |-> NoMeta]

\* the request failed as soon as there are no posts and some error
statusFailEmpty(posts, errors) ==
  IF Len(posts) = 0 /\ Len(errors) > 0 THEN 500 ELSE 200

\* the status of NextResponse.json(body) without an init argument
jsonStatus(posts, errors) == 200

\* the body assembled after the join
aggregate(rs, targets, sort, lim) ==
  LET posts == mergePosts(settledResults(rs))
      errors == mergeErrors(settledResults(rs))
      dedupedPosts == sortPosts(dedup(posts), sort)
  IN [status |-> jsonStatus(posts, errors), error |-> "",
      posts |-> Slice(dedupedPosts, lim),
      hasErrors |-> Len(errors) > 0, errors |-> errors, hasMeta |-> TRUE,
      meta |-> [subreddits |-> targets, sort |-> sort,
                count |-> Len(dedupedPosts)]]

\* -------------------------------------------------- the OAuth route's client
\* Refresh 60 s before actual expiry
ExpiryMargin == 60000

MsPerSecond == 1000

\* the cache test with the boundary served: now <= tokenExpiresAt - 60_000
cacheValidAtMargin(token, expiresAt, now) ==
  token # 0 /\ now <= expiresAt - ExpiryMargin

\* getAccessToken's test: cachedToken && now < tokenExpiresAt - 60_000
cacheValid(token, expiresAt, now) ==
  token # 0 /\ now < expiresAt - ExpiryMargin

\* the token of this exchange stored beside the expiry already in the cache
storeTokenKeepExpiry(token, now, expires_in) ==
  [token |-> token,
   expiresAt |-> IF cachedToken # 0 THEN tokenExpiresAt
                 ELSE now + expires_in * MsPerSecond]

\* what getAccessToken writes to the cache after a successful exchange
storeToken(token, now, expires_in) ==
  [token |-> token, expiresAt |-> now + expires_in * MsPerSecond]

\* the cache written whatever the token endpoint answered: an answer that is
\* not ok carries no access_token
afterExchangeUnchecked(reply, token, now) ==
  storeToken(IF reply.ok THEN token ELSE 0, now, reply.expires_in)

\* the cache after getAccessToken's exchange: it throws on an answer that is
\* not ok, before the lines that write the cache
afterExchange(reply, token, now) ==
  IF ~reply.ok THEN [token |-> cachedToken, expiresAt |-> tokenExpiresAt]
  ELSE storeToken(token, now, reply.expires_in)

\* the credentials tested before the filter
entryCredentialsFirst(targets, valid, configured) ==
  IF ~valid /\ ~configured THEN "unconfigured"
  ELSE IF targets = <<>> THEN "invalid"
  ELSE IF valid THEN "cached"
  ELSE "exchange"

\* GET's way to its first await or to its answer: the filter is tested
\* first, then getAccessToken tests the cache, then the credentials
entry(targets, valid, configured) ==
  IF targets = <<>> THEN "invalid"
  ELSE IF valid THEN "cached"
  ELSE IF ~configured THEN "unconfigured"
  ELSE "exchange"

\* the promise of the OAuth route's fetchSubreddit, settled with the reply
fetchSubredditWithToken(subreddit, reply) ==
  IF ~reply.ok
    THEN [status |-> "rejected", value |-> <<>>,
          reason |-> <<"Failed to fetch r/", subreddit, reply.status>>]
  ELSE [status |-> "fulfilled",
        value |-> [i \in 1..Len(reply.data) |-> normalizePost(reply.data[i])],
        reason |-> <<>>]

\* the request of the OAuth route's fetchSubreddit
listingRequest(subreddit, sort, lim, token) ==
  [subreddit |-> subreddit, sort |-> sort, limit |-> lim, token |-> token]

\* the catch answering without its status: NextResponse.json(body) alone
tokenFailureDefaultStatus(message) ==
  [status |-> 200, error |-> message, posts |-> <<>>, hasErrors |-> FALSE,
   errors |-> <<>>, hasMeta |-> FALSE, meta |-> NoMeta]

\* the 500 answer of GET's catch around getAccessToken
tokenFailure(message) ==
  [status |-> 500, error |-> message, posts |-> <<>>, hasErrors |-> FALSE,
   errors |-> <<>>, hasMeta |-> FALSE, meta |-> NoMeta]

credentialsMissing == "Reddit OAuth credentials are not configured"

exchangeFailed == "Failed to obtain Reddit access token"

\* ------------------------------------------------------- the proxy route
\* setTimeout(() => controller.abort(), 10000)
AbortAfter == 10000

\* body.slice(0, 200)
DetailLength == 200

\* searchParams.get(name) ?? fallback
OrElse(param, fallback) == IF param = "absent" THEN fallback ELSE param

\* the route as loaded, and its answer not yet given
NoAnswer == [status |-> 0, error |-> <<>>, detail |-> <<>>, data |-> <<>>]

NoProxy ==
  [pc |-> "idle", subreddit |-> "absent", url |-> <<>>, timer |-> "none",
   waited |-> 0, res |-> 0, body |-> <<>>, answer |-> NoAnswer]

\* the address of the listing on www.reddit.com
redditUrl(subreddit, sort, lim, t) == <<subreddit, sort, lim, t>>

missingSubreddit ==
  [status |-> 400, error |-> <<"Missing subreddit parameter">>, detail |-> <<>>,
   data |-> <<>>]

\* the answer to an upstream status that is not ok, with the whole body
upstreamErrorWhole(status, subreddit, body) ==
  [status |-> status, error |-> <<"Reddit returned", status, subreddit>>,
   detail |-> body, data |-> <<>>]

\* the answer to an upstream status that is not ok
upstreamError(status, subreddit, body) ==
  [status |-> status, error |-> <<"Reddit returned", status, subreddit>>,
   detail |-> Slice(body, DetailLength), data |-> <<>>]

\* the answer of the catch: the message of what was thrown
caught(message) ==
  [status |-> 500, error |-> <<message>>, detail |-> <<>>, data |-> <<>>]

\* the answer that hands the upstream JSON on
passedOn(data) ==
  [status |-> 200, error |-> <<>>, detail |-> <<>>, data |-> data]

\* ------------------------------------------- the proxy route with OAuth
\* tokenCache && tokenCache.expiresAt - now > 60_000; null is <<>>
tokenCacheValid(cache, now) ==
  cache # <<>> /\ cache[1].expiresAt - now > ExpiryMargin

\* tokenCache = { token: data.access_token, expiresAt: now + expires_in * 1000 }
tokenCacheOf(token, now, expires_in) ==
  <<[token |-> token, expiresAt |-> now + expires_in * MsPerSecond]>>

\* if (res.status === 401) tokenCache = null
invalidated(cache, status) == IF status = 401 THEN <<>> ELSE cache

\* an invocation of the OAuth proxy's GET that has not started
NoVisit ==
  [pc |-> "idle", subreddit |-> "absent", now |-> 0, seen |-> 0, token |-> 0,
   res |-> 0, dropped |-> 0, answer |-> NoAnswer]

\* ------------------------------------------------------------ the inputs
\* a request without a query string
NoRequest == [subreddit |-> <<>>, sort |-> "", limit |-> <<>>]

ParamTokens == {"artificial", "ChatGPT", "all", "bogus", ",", " "}

RECURSIVE SeqsUpTo(_, _)
SeqsUpTo(S, n) ==
  IF n = 0 THEN {<<>>}
  ELSE LET shorter == SeqsUpTo(S, n - 1)
       IN shorter \cup {Append(s, x) : s \in shorter, x \in S}

SubredditParams == SeqsUpTo(ParamTokens, MaxParamLen)

SortParams == {"", "hot", "new", "top", "rising"}

LimitParams == {<<>>, <<"0">>, <<"1">>, <<"2">>, <<"-", "1">>}

\* the requests: every parameter absent, or a subreddit filter with any sort
\* and limit
Queries ==
  {NoRequest} \cup
    [subreddit : SubredditParams \ {<<>>}, sort : SortParams, limit : LimitParams]

SubIndex(sub) == CHOOSE i \in 1..Len(SUBREDDITS) : SUBREDDITS[i] = sub

PostIds == <<"p1", "p2", "p3">>

\* what upstream holds for a subreddit: neighbouring subreddits share
\* submissions (same id) and report them with their own score and time
Feed(sub) ==
  [k \in 1..MaxItems |->
     Submission(PostIds[((SubIndex(sub) + k - 2) % 3) + 1], sub,
                (SubIndex(sub) + 2 * k) % 3, (2 * SubIndex(sub) + k) % 3)]

\* an upstream reply: an error status, a body without a data array, or the
\* first submissions of the feed
Replies(sub) ==
  {[ok |-> FALSE, status |-> 403, isArray |-> FALSE, data |-> <<>>],
   [ok |-> TRUE, status |-> 200, isArray |-> FALSE, data |-> <<>>]}
  \cup {[ok |-> TRUE, status |-> 200, isArray |-> TRUE,
         data |-> SubSeq(Feed(sub), 1, n)] : n \in 0..MaxItems}

\* ---------------------------------------------------------- the handler
\* the OAuth route and the proxy route as loaded, without an invocation
AuthLoaded ==
  /\ clock = 0
  /\ credentials = FALSE
  /\ cachedToken = 0
  /\ tokenExpiresAt = 0
  /\ grants = <<>>
  /\ calls = <<>>

ProxyLoaded == proxy = NoProxy

\* normalizePost not called
NormLoaded ==
  /\ raw = Submission("", "", 0, 0)
  /\ normalized = <<>>

\* ------------------------------------------------------- the front end
AUTO_REFRESH_INTERVAL == 5 * 60

\* the answers of /api/reddit: the stories it holds, filtered and ordered as
\* asked, so that no two selections are answered alike
Stories ==
  <<[id |-> "p1", subreddit |-> "ChatGPT"],
    [id |-> "p2", subreddit |-> "artificial"],
    [id |-> "p3", subreddit |-> "ChatGPT"]>>

Reverse(s) == [i \in 1..Len(s) |-> s[Len(s) + 1 - i]]

ApiPosts(subreddit, sort) ==
  LET wanted(story) == subreddit = "all" \/ story.subreddit = "ChatGPT"
      hot == SelectSeq(Stories, wanted)
  IN IF sort = "new" THEN Reverse(hot) ELSE hot

\* the loop that counts the posts of each subreddit
countsOf(list) ==
  [s \in {list[i].subreddit : i \in 1..Len(list)} |->
     Cardinality({i \in 1..Len(list) : list[i].subreddit = s})]

\* useState's initial values
Rendered ==
  [selectedSubreddit |-> "all", sortType |-> "hot", posts |-> <<>>,
   loading |-> TRUE, error |-> Null, autoRefresh |-> TRUE,
   lastUpdated |-> <<>>, refreshCountdown |-> AUTO_REFRESH_INTERVAL,
   subredditCounts |-> countsOf(<<>>)]

\* the query of fetchPosts, from the selection its closure holds
apiRequest(state) ==
  [subreddit |-> state.selectedSubreddit, sort |-> state.sortType,
   limit |-> <<"5", "0">>]

\* fetchPosts up to its await
begun(state) == [state EXCEPT !.loading = TRUE, !.error = Null]

\* the try block after the await, for an answer that is ok
succeeded(state, data, now) ==
  LET shown == IF data.posts # Undefined
                 THEN [state EXCEPT !.posts = data.posts,
                                    !.subredditCounts = countsOf(data.posts)]
               ELSE state
  IN [shown EXCEPT !.lastUpdated = <<now>>,
                   !.refreshCountdown = AUTO_REFRESH_INTERVAL,
                   !.loading = FALSE]

\* the catch block that also empties the list
failedClearing(state, message) ==
  [state EXCEPT !.error = message, !.loading = FALSE, !.posts = <<>>]

\* the catch and finally blocks
failed(state, message) ==
  [state EXCEPT !.error = message, !.loading = FALSE]

\* what fetch threw, or the Error thrown for an answer that is not ok
messageOf(reply) ==
  IF reply.status = 0 THEN <<"Failed to fetch">>
  ELSE <<"HTTP error ", reply.status>>

\* the interval's callback fetching whatever the switch says
onIntervalAlways(autoRefreshRef) == TRUE

\* the interval's callback: if (autoRefreshRef.current) fetchPosts()
onInterval(autoRefreshRef) == autoRefreshRef

\* the countdown's updater wrapping one tick late: prev < 1
tickLate(prev) ==
  IF prev < 1 THEN AUTO_REFRESH_INTERVAL ELSE prev - 1

\* the countdown's updater
tick(prev) ==
  IF prev <= 1 THEN AUTO_REFRESH_INTERVAL ELSE prev - 1

\* the component not mounted: rendered once, no effect run
UiLoaded ==
  /\ ui = Rendered
  /\ inflight = <<>>
  /\ callCount = 0
  /\ latest = "none"

\* the OAuth proxy as loaded, without an invocation
OProxyLoaded ==
  /\ tokenCache = <<>>
  /\ visits = <<>>

RestLoaded == NormLoaded /\ UiLoaded /\ OProxyLoaded

Init ==
  /\ AuthLoaded
  /\ ProxyLoaded
  /\ RestLoaded
  /\ request = NoRequest
  /\ phase = "idle"
  /\ subredditParam = <<>>
  /\ safeSort = "hot"
  /\ limit = 0
  /\ targetSubreddits = <<>>
  /\ fetches = <<>>
  /\ results = <<>>
  /\ firstSettled = 0
  /\ response = NoResponse

\* GET up to the await: parse the query, resolve the targets, start the fetches
Receive(q) ==
  /\ phase = "idle"
  /\ request' = q
  /\ subredditParam' = OrDefault(q.subreddit, <<"all">>)
  /\ limit' = parseLimit(q.limit)
  /\ safeSort' = parseSort(q.sort)
  /\ targetSubreddits' = resolveTargets(subredditParam')
  /\ firstSettled' = 0
  /\ IF targetSubreddits' = <<>>
       THEN /\ response' = invalidSubreddit
            /\ phase' = "done"
            /\ fetches' = <<>>
            /\ results' = <<>>
       ELSE /\ response' = NoResponse
            /\ phase' = "fetching"
            /\ fetches' =
                 [i \in 1..Len(targetSubreddits') |->
                    fetchRequest(targetSubreddits'[i], safeSort',
                                 perLimit(subredditParam', limit',
                                          Len(targetSubreddits')))]
            /\ results' = [i \in 1..Len(targetSubreddits') |-> Pending]
  /\ UNCHANGED <<authVars, proxyVars, restVars>>

\* one upstream reply arrives and settles its promise
Settle(i, reply) ==
  /\ phase = "fetching"
  /\ results[i].status = "pending"
  /\ results' = [results EXCEPT ![i] = fetchSubreddit(targetSubreddits[i], reply)]
  /\ firstSettled' = IF firstSettled = 0 THEN i ELSE firstSettled
  /\ UNCHANGED <<request, phase, subredditParam, safeSort, limit,
                 targetSubreddits, fetches, response, authVars, proxyVars, restVars>>

\* GET after the await: merge, deduplicate, sort, truncate, answer
Respond ==
  /\ phase = "fetching"
  /\ allSettled(results)
  /\ response' = aggregate(results, targetSubreddits, safeSort, limit)
  /\ phase' = "done"
  /\ UNCHANGED <<request, subredditParam, safeSort, limit, targetSubreddits,
                 fetches, results, firstSettled, authVars, proxyVars,
                 restVars>>

Next ==
  \/ phase = "idle" /\ \E q \in Queries : Receive(q)
  \/ \E i \in 1..Len(results) : \E reply \in Replies(targetSubreddits[i]) :
       Settle(i, reply)
  \/ Respond

Spec == Init /\ [][Next]_vars

\* ------------------------------------------------ the proxy route's handler
ProxySubreddits == {"absent", "", "ChatGPT", "nosuchsub"}

ProxyQueries ==
  [subreddit : ProxySubreddits, sort : {"absent", "new"}, limit : {"absent", "5"}]

\* upstream statuses: res.ok is status in 200..299
ProxyStatuses == {200, 403, 404, 429, 500}

isOk(status) == status >= 200 /\ status <= 299

\* an upstream body of n characters
Body(n) == [i \in 1..n |-> Digits[(i % 10) + 1]]

BodyLengths == {0, 1, 199, 200, 201, 260}

\* the parsed JSON bodies of a listing
ProxyListings == {<<>>, <<"p1">>, <<"p1", "p2">>}

InitProxy ==
  /\ AuthLoaded
  /\ RestLoaded
  /\ request = NoRequest
  /\ phase = "idle"
  /\ subredditParam = <<>>
  /\ safeSort = "hot"
  /\ limit = 0
  /\ targetSubreddits = <<>>
  /\ fetches = <<>>
  /\ results = <<>>
  /\ firstSettled = 0
  /\ response = NoResponse
  /\ proxy = NoProxy

\* GET is invoked: without a subreddit it answers 400; otherwise it arms the
\* timer, starts the fetch and suspends
ProxyReceive(q) ==
  /\ proxy.pc \in {"idle", "done"}
  /\ proxy' =
       IF q.subreddit \in {"absent", ""}
         THEN [NoProxy EXCEPT !.pc = "done", !.subreddit = q.subreddit,
                              !.answer = missingSubreddit]
       ELSE [NoProxy EXCEPT
               !.pc = "headers",
               !.subreddit = q.subreddit,
               !.url = redditUrl(q.subreddit, OrElse(q.sort, "hot"),
                                 OrElse(q.limit, "25"), "day"),
               !.timer = "armed"]
  /\ UNCHANGED <<aggVars, authVars, restVars>>

\* time passes while the timer is armed
Wait ==
  /\ proxy.timer = "armed"
  /\ proxy.waited < AbortAfter
  /\ proxy' = [proxy EXCEPT !.waited = @ + AbortAfter \div 2]
  /\ UNCHANGED <<aggVars, authVars, restVars>>

\* the timer fires: controller.abort() rejects the fetch if it is pending,
\* and the catch answers 500; on a fetch that has failed it does nothing
Timeout ==
  /\ proxy.timer = "armed"
  /\ proxy.waited >= AbortAfter
  /\ proxy' =
       IF proxy.pc = "headers"
         THEN [proxy EXCEPT !.pc = "done", !.timer = "fired",
                            !.answer = caught("This operation was aborted")]
       ELSE [proxy EXCEPT !.timer = "fired"]
  /\ UNCHANGED <<aggVars, authVars, restVars>>

\* the fetch rejects (no connection): the catch answers 500; the timer is
\* left armed
FetchFails ==
  /\ proxy.pc = "headers"
  /\ proxy' = [proxy EXCEPT !.pc = "done", !.answer = caught("fetch failed")]
  /\ UNCHANGED <<aggVars, authVars, restVars>>

\* the upstream headers arrive: the fetch resolves, the timer is cleared and
\* the handler goes on to read the body
HeadersArrive(status) ==
  /\ proxy.pc = "headers"
  /\ proxy' = [proxy EXCEPT
                 !.pc = IF isOk(status) THEN "json" ELSE "text",
                 !.res = status,
                 !.timer = "cleared"]
  /\ UNCHANGED <<aggVars, authVars, restVars>>

\* res.text() settles (a failure is caught as ''): the handler answers with
\* the upstream status
TextRead(body) ==
  /\ proxy.pc = "text"
  /\ proxy' = [proxy EXCEPT
                 !.pc = "done",
                 !.body = body,
                 !.answer = upstreamError(proxy.res, proxy.subreddit, body)]
  /\ UNCHANGED <<aggVars, authVars, restVars>>

\* res.json() resolves: the handler hands the listing on
JsonRead(data) ==
  /\ proxy.pc = "json"
  /\ proxy' = [proxy EXCEPT !.pc = "done", !.answer = passedOn(data)]
  /\ UNCHANGED <<aggVars, authVars, restVars>>

\* res.json() rejects (the body is no JSON): the catch answers 500
JsonFails ==
  /\ proxy.pc = "json"
  /\ proxy' = [proxy EXCEPT !.pc = "done",
                            !.answer = caught("Unexpected token")]
  /\ UNCHANGED <<aggVars, authVars, restVars>>

NextProxy ==
  \/ \E q \in ProxyQueries : ProxyReceive(q)
  \/ Wait
  \/ Timeout
  \/ FetchFails
  \/ \E status \in ProxyStatuses : HeadersArrive(status)
  \/ \E n \in BodyLengths : TextRead(Body(n))
  \/ \E data \in ProxyListings : JsonRead(data)
  \/ JsonFails

SpecProxy == InitProxy /\ [][NextProxy]_vars

\* the runtime lets time pass and fires the timers that are due; whether and
\* when upstream sends anything is up to upstream
SpecProxyLive == SpecProxy /\ WF_vars(Wait) /\ WF_vars(Timeout)

\* ------------------------------------- the OAuth route under two requests
\* The OAuth variant of the route (getAccessToken and a module-level token
\* cache in front of the same aggregation), invoked by requests that overlap.
Callers == {1, 2}

\* the clock advances in steps of half the margin
Tick == ExpiryMargin \div 2

\* expires_in of a token reply, in seconds
ExpiresIn == {30, 120}

AuthQueries ==
  [subreddit : {<<"ChatGPT">>, <<"bogus">>}, sort : {""}, limit : {<<>>}]

\* the replies of the token endpoint
TokenReplies ==
  {[ok |-> FALSE, status |-> 401, expires_in |-> 0]}
  \cup {[ok |-> TRUE, status |-> 200, expires_in |-> e] : e \in ExpiresIn}

\* the replies of oauth.reddit.com to a listing request
ListingReplies(sub) ==
  {[ok |-> FALSE, status |-> 401, data |-> <<>>],
   [ok |-> TRUE, status |-> 200, data |-> Feed(sub)]}

\* an invocation of GET that has not started
NoCall ==
  [pc |-> "idle", now |-> 0, seen |-> 0, seenExpiresAt |-> 0, hit |-> FALSE,
   exchanged |-> FALSE,
   token |-> 0, subredditParam |-> <<>>, safeSort |-> "hot", limit |-> 0,
   targetSubreddits |-> <<>>, fetches |-> <<>>, results |-> <<>>,
   response |-> NoResponse]

InitAuth ==
  /\ request = NoRequest
  /\ phase = "idle"
  /\ subredditParam = <<>>
  /\ safeSort = "hot"
  /\ limit = 0
  /\ targetSubreddits = <<>>
  /\ fetches = <<>>
  /\ results = <<>>
  /\ firstSettled = 0
  /\ response = NoResponse
  /\ ProxyLoaded
  /\ RestLoaded
  /\ clock = 0
  /\ credentials \in BOOLEAN
  /\ cachedToken = 0
  /\ tokenExpiresAt = 0
  /\ grants = <<>>
  /\ calls = [r \in Callers |-> NoCall]

\* the fan-out of GET with the token in hand, up to the await
startFetches(call, token) ==
  [call EXCEPT
     !.pc = "fetching",
     !.token = token,
     !.fetches =
       [i \in 1..Len(call.targetSubreddits) |->
          listingRequest(call.targetSubreddits[i], call.safeSort,
                         perLimit(call.subredditParam, call.limit,
                                  Len(call.targetSubreddits)),
                         token)],
     !.results = [i \in 1..Len(call.targetSubreddits) |-> Pending]]

\* GET is invoked: the query is parsed and the targets resolved; then
\* getAccessToken serves the cached token, throws for want of credentials,
\* or sends the exchange and suspends
AuthReceive(r, q) ==
  LET param == OrDefault(q.subreddit, <<"all">>)
      targets == resolveTargets(param)
      started == [NoCall EXCEPT !.subredditParam = param,
                                !.limit = parseLimit(q.limit),
                                !.safeSort = parseSort(q.sort),
                                !.targetSubreddits = targets]
      entered == [started EXCEPT !.now = clock, !.seen = cachedToken,
                                 !.seenExpiresAt = tokenExpiresAt]
      way == entry(targets, cacheValid(cachedToken, tokenExpiresAt, clock),
                   credentials)
  IN /\ calls[r].pc \in {"idle", "done"}
     /\ calls' = [calls EXCEPT ![r] =
          IF way = "invalid"
            THEN [started EXCEPT !.pc = "done", !.response = invalidSubreddit]
          ELSE IF way = "cached"
            THEN startFetches([entered EXCEPT !.hit = TRUE], cachedToken)
          ELSE IF way = "unconfigured"
            THEN [entered EXCEPT !.pc = "done",
                                 !.response = tokenFailure(credentialsMissing)]
          ELSE [entered EXCEPT !.pc = "exchanging", !.exchanged = TRUE]]
     /\ UNCHANGED <<aggVars, proxyVars, restVars, clock, credentials, cachedToken,
                    tokenExpiresAt, grants>>

\* the token endpoint replies: getAccessToken throws, or fills the cache and
\* returns the token, and GET starts the fetches
ExchangeDone(r, reply) ==
  LET token == Len(grants) + 1
      stored == afterExchange(reply, token, calls[r].now)
  IN /\ calls[r].pc = "exchanging"
     /\ cachedToken' = stored.token
     /\ tokenExpiresAt' = stored.expiresAt
     /\ IF ~reply.ok
          THEN /\ calls' = [calls EXCEPT
                              ![r].pc = "done",
                              ![r].response = tokenFailure(exchangeFailed)]
               /\ UNCHANGED grants
          ELSE /\ Len(grants) < MaxGrants
               /\ grants' = Append(grants, [now |-> calls[r].now,
                                           expires_in |-> reply.expires_in,
                                           seen |-> calls[r].seen])
               /\ calls' = [calls EXCEPT
                              ![r] = startFetches(calls[r], stored.token)]
  /\ UNCHANGED <<aggVars, proxyVars, restVars, clock, credentials>>

\* a listing reply arrives and settles its promise
ListingDone(r, i, reply) ==
  /\ calls[r].pc = "fetching"
  /\ calls[r].results[i].status = "pending"
  /\ calls' = [calls EXCEPT ![r].results[i] =
                 fetchSubredditWithToken(calls[r].targetSubreddits[i], reply)]
  /\ UNCHANGED <<aggVars, proxyVars, restVars, clock, credentials, cachedToken,
                 tokenExpiresAt, grants>>

\* GET after the await: merge, deduplicate, sort, truncate, answer
AuthRespond(r) ==
  /\ calls[r].pc = "fetching"
  /\ allSettled(calls[r].results)
  /\ calls' = [calls EXCEPT
       ![r].pc = "done",
       ![r].response = aggregate(calls[r].results, calls[r].targetSubreddits,
                                 calls[r].safeSort, calls[r].limit)]
  /\ UNCHANGED <<aggVars, proxyVars, restVars, clock, credentials, cachedToken,
                 tokenExpiresAt, grants>>

\* time passes
Advance ==
  /\ clock < MaxClock * Tick
  /\ clock' = clock + Tick
  /\ UNCHANGED <<aggVars, proxyVars, restVars, credentials, cachedToken, tokenExpiresAt,
                 grants, calls>>

NextAuth ==
  \/ \E r \in Callers : \E q \in AuthQueries : AuthReceive(r, q)
  \/ \E r \in Callers : \E reply \in TokenReplies : ExchangeDone(r, reply)
  \/ \E r \in Callers : \E i \in 1..Len(calls[r].results) :
       \E reply \in ListingReplies(calls[r].targetSubreddits[i]) :
         ListingDone(r, i, reply)
  \/ \E r \in Callers : AuthRespond(r)
  \/ Advance

SpecAuth == InitAuth /\ [][NextAuth]_vars

\* ------------------------------------------ the OAuth route's fan-out
\* One invocation at a time, for every subreddit, for two, or for none that
\* is configured; the cache is as the invocations before left it.
FanQueries ==
  [subreddit : {<<>>, <<"artificial", ",", "ChatGPT">>, <<"bogus">>},
   sort : {""}, limit : {<<>>}]

NextAuthFan ==
  \/ \E q \in FanQueries : AuthReceive(1, q)
  \/ \E reply \in TokenReplies : ExchangeDone(1, reply)
  \/ \E i \in 1..Len(calls[1].results) :
       \E reply \in ListingReplies(calls[1].targetSubreddits[i]) :
         ListingDone(1, i, reply)
  \/ AuthRespond(1)
  \/ Advance

SpecAuthFan == InitAuth /\ [][NextAuthFan]_vars

\* ------------------------------------- the OAuth proxy under two requests
\* The single-subreddit proxy with getAccessToken and tokenCache
\* (src/unnamed/part_004), invoked by requests that overlap.
VisitQueries == [subreddit : {"absent", "ChatGPT"}]

\* the statuses of oauth.reddit.com
VisitStatuses == {200, 401, 403}

InitOProxy ==
  /\ request = NoRequest
  /\ phase = "idle"
  /\ subredditParam = <<>>
  /\ safeSort = "hot"
  /\ limit = 0
  /\ targetSubreddits = <<>>
  /\ fetches = <<>>
  /\ results = <<>>
  /\ firstSettled = 0
  /\ response = NoResponse
  /\ ProxyLoaded
  /\ NormLoaded
  /\ UiLoaded
  /\ clock = 0
  /\ credentials \in BOOLEAN
  /\ cachedToken = 0
  /\ tokenExpiresAt = 0
  /\ grants = <<>>
  /\ calls = <<>>
  /\ tokenCache = <<>>
  /\ visits = [r \in Callers |-> NoVisit]

\* GET is invoked: without a subreddit it answers 400; otherwise
\* getAccessToken serves the cached token and the listing is requested, or
\* it throws for want of credentials, or it sends the exchange and suspends
VisitReceive(r, q) ==
  LET entered == [NoVisit EXCEPT
                    !.subreddit = q.subreddit, !.now = clock,
                    !.seen = IF tokenCache = <<>> THEN 0 ELSE tokenCache[1].token]
  IN /\ visits[r].pc \in {"idle", "done"}
     /\ visits' = [visits EXCEPT ![r] =
          IF q.subreddit \in {"absent", ""}
            THEN [NoVisit EXCEPT !.pc = "done", !.subreddit = q.subreddit,
                                 !.answer = missingSubreddit]
          ELSE IF tokenCacheValid(tokenCache, clock)
            THEN [entered EXCEPT !.pc = "headers",
                                 !.token = tokenCache[1].token]
          ELSE IF ~credentials
            THEN [entered EXCEPT
                    !.pc = "done",
                    !.answer = caught("Reddit OAuth credentials not configured")]
          ELSE [entered EXCEPT !.pc = "exchanging"]]
     /\ UNCHANGED <<tokenCache, aggVars, authVars, proxyVars, normVars, uiVars>>

\* the token endpoint replies: getAccessToken throws, or fills the cache and
\* returns the token, and GET requests the listing
VisitExchangeDone(r, reply) ==
  /\ visits[r].pc = "exchanging"
  /\ IF ~reply.ok
       THEN /\ visits' = [visits EXCEPT
                            ![r].pc = "done",
                            ![r].answer = caught("Reddit token request failed")]
            /\ UNCHANGED <<tokenCache, grants>>
       ELSE /\ Len(grants) < MaxGrants
            /\ grants' = Append(grants, [now |-> visits[r].now,
                                        expires_in |-> reply.expires_in,
                                        seen |-> visits[r].seen])
            /\ tokenCache' = tokenCacheOf(Len(grants) + 1, visits[r].now,
                                          reply.expires_in)
            /\ visits' = [visits EXCEPT ![r].pc = "headers",
                                        ![r].token = tokenCache'[1].token]
  /\ UNCHANGED <<aggVars, proxyVars, normVars, uiVars, clock, credentials,
                 cachedToken, tokenExpiresAt, calls>>

\* the headers of the listing arrive: a 401 empties the cache, then the body
\* is awaited
VisitHeaders(r, status) ==
  /\ visits[r].pc = "headers"
  /\ tokenCache' = IF isOk(status) THEN tokenCache
                   ELSE invalidated(tokenCache, status)
  /\ visits' = [visits EXCEPT
       ![r].pc = IF isOk(status) THEN "json" ELSE "text",
       ![r].res = status,
       ![r].dropped = IF tokenCache' = <<>> /\ tokenCache # <<>>
                        THEN tokenCache[1].token ELSE 0]
  /\ UNCHANGED <<aggVars, authVars, proxyVars, normVars, uiVars>>

\* the body of an answer that is not ok has been read
VisitText(r, body) ==
  /\ visits[r].pc = "text"
  /\ visits' = [visits EXCEPT
       ![r].pc = "done",
       ![r].answer = upstreamError(visits[r].res, visits[r].subreddit, body)]
  /\ UNCHANGED <<tokenCache, aggVars, authVars, proxyVars, normVars, uiVars>>

\* the listing has been read and parsed
VisitJson(r, data) ==
  /\ visits[r].pc = "json"
  /\ visits' = [visits EXCEPT ![r].pc = "done", ![r].answer = passedOn(data)]
  /\ UNCHANGED <<tokenCache, aggVars, authVars, proxyVars, normVars, uiVars>>

NextOProxy ==
  \/ \E r \in Callers : \E q \in VisitQueries : VisitReceive(r, q)
  \/ \E r \in Callers : \E reply \in TokenReplies : VisitExchangeDone(r, reply)
  \/ \E r \in Callers : \E status \in VisitStatuses : VisitHeaders(r, status)
  \/ \E r \in Callers : \E n \in {0, 1} : VisitText(r, Body(n))
  \/ \E r \in Callers : VisitJson(r, <<"p1">>)
  \/ Advance

SpecOProxy == InitOProxy /\ [][NextOProxy]_vars

\* ------------------------------------------- the pipeline on free listings
\* The handler suspended in the await of a request for two subreddits whose
\* fetches have settled, with any listings of submissions upstream may send.
PipeParam == <<"artificial", ",", "ChatGPT">>

PipeSorts == {"", "new", "top"}

PipeLimits == {<<>>, <<"0">>, <<"1">>, <<"2">>, <<"-", "1">>, <<"-", "2">>}

PipeKeys == {1, 2}

PipeSubmissions(sub) ==
  {Submission(id, sub, score, created) :
     id \in {"p1", "p2"}, score \in PipeKeys, created \in PipeKeys}

PipeReplies(sub, n) ==
  {[ok |-> FALSE, status |-> 403, isArray |-> FALSE, data |-> <<>>]}
  \cup {[ok |-> TRUE, status |-> 200, isArray |-> TRUE, data |-> l] :
          l \in SeqsUpTo(PipeSubmissions(sub), n)}

InitPipe ==
  \E sort \in PipeSorts, lim \in PipeLimits :
    \E r1 \in PipeReplies(PipeParam[1], PipeItems) :
      \E r2 \in PipeReplies(PipeParam[3], PipeItems - Len(r1.data)) :
        /\ AuthLoaded
        /\ ProxyLoaded
        /\ RestLoaded
        /\ request = [subreddit |-> PipeParam, sort |-> sort, limit |-> lim]
        /\ phase = "fetching"
        /\ subredditParam = PipeParam
        /\ limit = parseLimit(lim)
        /\ safeSort = parseSort(sort)
        /\ targetSubreddits = resolveTargets(PipeParam)
        /\ fetches =
             [i \in 1..Len(targetSubreddits) |->
                fetchRequest(targetSubreddits[i], safeSort,
                             perLimit(PipeParam, limit, Len(targetSubreddits)))]
        /\ results = <<fetchSubreddit(PipeParam[1], r1),
                       fetchSubreddit(PipeParam[3], r2)>>
        /\ firstSettled = 1
        /\ response = NoResponse

NextPipe == Respond

SpecPipe == InitPipe /\ [][NextPipe]_vars

\* ------------------------------------------- the pipeline on a long listing
\* The handler suspended in the await of a request for one subreddit whose
\* fetch has settled with a listing around the cap on the limit; upstream
\* decides how many submissions it sends, whatever size was asked.
CapParam == <<"ChatGPT">>

CapLimits == {<<>>, <<"5", "0">>, <<"1", "0", "1">>, <<"0">>, <<"-", "1">>}

CapSorts == {"", "new"}

CapSizes == {0, 1, 50, 51, 100, 101, 102}

\* n submissions of a subreddit, rising in score and time
CapListing(sub, n) ==
  [k \in 1..n |-> Submission(ToString(k), sub, k, k)]

CapReplies(sub) ==
  {[ok |-> FALSE, status |-> 403, isArray |-> FALSE, data |-> <<>>]}
  \cup {[ok |-> TRUE, status |-> 200, isArray |-> TRUE,
          data |-> CapListing(sub, n)] : n \in CapSizes}

InitCap ==
  \E sort \in CapSorts, lim \in CapLimits :
    \E reply \in CapReplies(CapParam[1]) :
      /\ AuthLoaded
      /\ ProxyLoaded
      /\ RestLoaded
      /\ request = [subreddit |-> CapParam, sort |-> sort, limit |-> lim]
      /\ phase = "fetching"
      /\ subredditParam = CapParam
      /\ limit = parseLimit(lim)
      /\ safeSort = parseSort(sort)
      /\ targetSubreddits = resolveTargets(CapParam)
      /\ fetches =
           [i \in 1..Len(targetSubreddits) |->
              fetchRequest(targetSubreddits[i], safeSort,
                           perLimit(CapParam, limit, Len(targetSubreddits)))]
      /\ results = <<fetchSubreddit(CapParam[1], reply)>>
      /\ firstSettled = 1
      /\ response = NoResponse

NextCap == Respond

SpecCap == InitCap /\ [][NextCap]_vars

\* ------------------------------------------ normalizePost on thumbnails
\* the characters of a thumbnail: "http", "s", "://" and "x" for the parts of
\* an address, the placeholder words for themselves
ThumbTokens ==
  {"http", "s", "://", "x", "self", "default", "nsfw", "spoiler", "image"}

Thumbnails == SeqsUpTo(ThumbTokens, MaxThumbLen) \cup {Undefined}

InitNorm ==
  /\ \E t \in Thumbnails :
       raw = [Submission("p1", "ChatGPT", 1, 1) EXCEPT !.thumbnail = t]
  /\ normalized = <<>>
  /\ request = NoRequest
  /\ phase = "idle"
  /\ subredditParam = <<>>
  /\ safeSort = "hot"
  /\ limit = 0
  /\ targetSubreddits = <<>>
  /\ fetches = <<>>
  /\ results = <<>>
  /\ firstSettled = 0
  /\ response = NoResponse
  /\ AuthLoaded
  /\ ProxyLoaded
  /\ UiLoaded
  /\ OProxyLoaded

\* normalizePost(raw)
Normalize ==
  /\ normalized = <<>>
  /\ normalized' = <<normalizePost(raw)>>
  /\ UNCHANGED <<raw, aggVars, authVars, proxyVars, uiVars, oproxyVars>>

NextNorm == Normalize

SpecNorm == InitNorm /\ [][NextNorm]_vars

\* ------------------------------------------------ the front end's events
\* NewsAggregator mounted once; the user, the two timers and the answers of
\* /api/reddit drive it.  Each event runs to the end of the renders and
\* effects it causes.
SubredditFilters == {"all", "chatgpt"}

SortTypes == {"hot", "new"}

\* the answers to a call of fetchPosts: the posts, an error status, or no
\* answer at all (status 0: fetch rejects)
ApiReplies(req) ==
  {[ok |-> TRUE, status |-> 200, posts |-> ApiPosts(req.subreddit, req.sort)],
   [ok |-> FALSE, status |-> 500, posts |-> <<>>],
   [ok |-> FALSE, status |-> 0, posts |-> <<>>]}

InitUI ==
  /\ UiLoaded
  /\ NormLoaded
  /\ OProxyLoaded
  /\ AuthLoaded
  /\ ProxyLoaded
  /\ request = NoRequest
  /\ phase = "idle"
  /\ subredditParam = <<>>
  /\ safeSort = "hot"
  /\ limit = 0
  /\ targetSubreddits = <<>>
  /\ fetches = <<>>
  /\ results = <<>>
  /\ firstSettled = 0
  /\ response = NoResponse

\* fetchPosts(), with the closure of the render given, up to its await
CallFetchPosts(state) ==
  /\ callCount < MaxCalls
  /\ ui' = begun(state)
  /\ inflight' = Append(inflight, [n |-> callCount + 1,
                                   request |-> apiRequest(state)])
  /\ callCount' = callCount + 1
  /\ latest' = "pending"

\* the effects of the first render: the initial fetch; the two intervals are
\* set
Mount ==
  /\ callCount = 0
  /\ CallFetchPosts(ui)
  /\ UNCHANGED <<aggVars, authVars, proxyVars, normVars, oproxyVars>>

\* a click on another subreddit: setSelectedSubreddit, then the effect that
\* calls the new fetchPosts
SelectSubreddit(s) ==
  /\ callCount > 0
  /\ s # ui.selectedSubreddit
  /\ CallFetchPosts([ui EXCEPT !.selectedSubreddit = s])
  /\ UNCHANGED <<aggVars, authVars, proxyVars, normVars, oproxyVars>>

\* a click on another sort: setSortType, then the same effect
SelectSort(t) ==
  /\ callCount > 0
  /\ t # ui.sortType
  /\ CallFetchPosts([ui EXCEPT !.sortType = t])
  /\ UNCHANGED <<aggVars, authVars, proxyVars, normVars, oproxyVars>>

\* a click on the auto-refresh switch, then the countdown's effect
ToggleAutoRefresh ==
  /\ callCount > 0
  /\ ui' = IF ui.autoRefresh
             THEN [ui EXCEPT !.autoRefresh = FALSE,
                             !.refreshCountdown = AUTO_REFRESH_INTERVAL]
           ELSE [ui EXCEPT !.autoRefresh = TRUE]
  /\ UNCHANGED <<inflight, callCount, latest, aggVars, authVars, proxyVars,
                 normVars, oproxyVars>>

\* a click on a button bound to fetchPosts: "Refresh now" (disabled while
\* loading), "Try again" (shown with an error), "Refresh" (on an empty list)
Refresh ==
  /\ callCount > 0
  /\ ~ui.loading \/ ui.error # Null
  /\ CallFetchPosts(ui)
  /\ UNCHANGED <<aggVars, authVars, proxyVars, normVars, oproxyVars>>

\* the refresh interval fires
IntervalFires ==
  /\ callCount > 0
  /\ IF onInterval(ui.autoRefresh)
       THEN CallFetchPosts(ui)
     ELSE UNCHANGED <<ui, inflight, callCount, latest>>
  /\ UNCHANGED <<aggVars, authVars, proxyVars, normVars, oproxyVars>>

\* the countdown's interval fires; it is set only while auto-refresh is on
CountdownTick ==
  /\ callCount > 0
  /\ ui.autoRefresh
  /\ ui' = [ui EXCEPT !.refreshCountdown = tick(ui.refreshCountdown)]
  /\ UNCHANGED <<inflight, callCount, latest, aggVars, authVars, proxyVars,
                 normVars, oproxyVars>>

\* the answer to a call arrives: fetchPosts from its await to its end
Settled(i, reply) ==
  /\ i \in 1..Len(inflight)
  /\ ui' = IF reply.ok THEN succeeded(ui, reply, clock)
           ELSE failed(ui, messageOf(reply))
  /\ inflight' = [k \in 1..(Len(inflight) - 1) |->
                    IF k < i THEN inflight[k] ELSE inflight[k + 1]]
  /\ latest' = IF inflight[i].n # callCount THEN latest
               ELSE IF reply.ok THEN "ok" ELSE "failed"
  /\ UNCHANGED <<callCount, aggVars, authVars, proxyVars, normVars,
                 oproxyVars>>

\* the selection changes and time passes; the countdown is left out, which
\* no other part of the state depends on
NextUI ==
  \/ Mount
  \/ \E s \in SubredditFilters : SelectSubreddit(s)
  \/ \E t \in SortTypes : SelectSort(t)
  \/ ToggleAutoRefresh
  \/ Refresh
  \/ IntervalFires
  \/ \E i \in 1..Len(inflight) : \E reply \in ApiReplies(inflight[i].request) :
       Settled(i, reply)
  \/ Advance

SpecUI == InitUI /\ [][NextUI]_vars

\* the countdown under one selection
NextCountdown ==
  \/ Mount
  \/ ToggleAutoRefresh
  \/ Refresh
  \/ IntervalFires
  \/ \E i \in 1..Len(inflight) : \E reply \in ApiReplies(inflight[i].request) :
       Settled(i, reply)
  \/ CountdownTick

SpecCountdown == InitUI /\ [][NextCountdown]_vars

\* ------------------------------------------------- vocabulary of the claims
Fulfilled == {i \in 1..Len(results) : results[i].status = "fulfilled"}

Rejected == {i \in 1..Len(results) : results[i].status = "rejected"}

\* the handler has answered with the aggregate body
Answered == phase = "done" /\ response.hasMeta

\* the identifiers the fulfilled fetches returned
FetchedIds ==
  UNION {{results[i].value[k].id : k \in 1..Len(results[i].value)} : i \in Fulfilled}

FetchedPosts ==
  UNION {{results[i].value[k] : k \in 1..Len(results[i].value)} : i \in Fulfilled}

SortKey(post) == IF safeSort = "new" THEN post.createdAt ELSE post.score

NonIncreasing(ps) == \A i \in 1..Len(ps) - 1 : SortKey(ps[i]) >= SortKey(ps[i + 1])

\* position j of the parameter holds a subreddit name standing alone in its
\* comma-separated entry: every other token of the entry is a blank
AloneAt(param, j) ==
  \A k \in 1..Len(param) :
    (k # j /\ param[k] # " ") =>
      \E c \in Min(k, j)..Max(k, j) : c # j /\ param[c] = ","

RecognisedAt(param) ==
  {j \in 1..Len(param) : param[j] \in Range(SUBREDDITS) /\ AloneAt(param, j)}

\* the source whose submission with this id is met first in target order
FirstSource(id) ==
  CHOOSE i \in Fulfilled :
    /\ \E k \in 1..Len(results[i].value) : results[i].value[k].id = id
    /\ \A j \in Fulfilled :
         (\E k \in 1..Len(results[j].value) : results[j].value[k].id = id) => i <= j

FirstIn(i, id) ==
  LET v == results[i].value
      k == CHOOSE k \in 1..Len(v) :
             v[k].id = id /\ \A m \in 1..k - 1 : v[m].id # id
  IN v[k]

\* where the submission with this id is met first within its first source
FirstPosition(id) ==
  LET v == results[FirstSource(id)].value
  IN CHOOSE k \in 1..Len(v) : v[k].id = id /\ \A m \in 1..k - 1 : v[m].id # id

\* merge order: by the position of the source in the target list, then by
\* the upstream order within the source
BeforeInMerge(id1, id2) ==
  \/ FirstSource(id1) < FirstSource(id2)
  \/ FirstSource(id1) = FirstSource(id2) /\ FirstPosition(id1) < FirstPosition(id2)

\* the string begins with the scheme of an absolute address
HasSchemePrefix(s) ==
  StartsWith(s, <<"http", "://">>) \/ StartsWith(s, <<"http", "s", "://">>)

\* ------------------------------------------------------------------ claims

\* C1: when every target's fetch fails, the response has a failure (500)
\* status and an empty posts list.
C1_TotalFailure ==
  (phase = "done" /\ Len(results) > 0 /\ Rejected = 1..Len(results)) =>
    (response.status = 500 /\ response.posts = <<>>)

\* C2: the posts of a response never hold two items with the same id, also
\* when two fetches return items that share an id.
C2_NoDuplicateIds ==
  phase = "done" =>
    \A i, j \in 1..Len(response.posts) :
      i # j => response.posts[i].id # response.posts[j].id

C2_Witness ==
  /\ Answered
  /\ \E i, j \in Fulfilled :
       /\ i < j
       /\ \E k \in 1..Len(results[i].value), m \in 1..Len(results[j].value) :
            /\ results[i].value[k].id = results[j].value[m].id
            /\ \E n \in 1..Len(response.posts) :
                 response.posts[n].id = results[i].value[k].id

C4_PartialFailure ==
  (phase = "done" /\ Fulfilled # {}) =>
    /\ response.status = 200
    /\ Range(response.posts) \subseteq FetchedPosts
    /\ Len(response.errors) = Cardinality(Rejected)
    /\ response.hasErrors <=> Rejected # {}
    /\ \A i \in Rejected : Includes(response.errors, results[i].reason)

C4_Witness ==
  /\ Answered
  /\ Cardinality(Rejected) = 1
  /\ Cardinality(Fulfilled) >= 2
  /\ Len(response.errors) = 1
  /\ \E n, m \in 1..Len(response.posts) :
       response.posts[n].subreddit # response.posts[m].subreddit

\* C5: whenever at least one target's fetch succeeds, even with an empty
\* list, the aggregation does not end in a request-level error.
C5_NoRequestErrorOnSuccess ==
  (phase = "done" /\ Fulfilled # {}) =>
    (response.status < 400 /\ response.error = "" /\ response.hasMeta)

C5_Witness ==
  /\ Answered
  /\ Rejected # {}
  /\ Fulfilled # {}
  /\ \A i \in Fulfilled : results[i].value = <<>>
  /\ response.status = 200

\* C6: the returned posts are non-increasing in createdAt for sort=new and in
\* score for hot and top, before and after truncation.
C6_Sorted ==
  Answered =>
    /\ NonIncreasing(response.posts)
    /\ NonIncreasing(sortPosts(dedup(mergePosts(results)), safeSort))

C6_Witness ==
  /\ Answered
  /\ safeSort = "new"
  /\ Len(response.posts) >= 2
  /\ response.posts[1].createdAt > response.posts[2].createdAt
  /\ response.posts[1].score < response.posts[2].score

\* C7: meta.subreddits is the resolved target list: all configured
\* subreddits for "all", otherwise the entries of the comma-separated list
\* that are configured subreddits, in order; the fetches issued are for
\* exactly these subreddits.
C7_MetaSubreddits ==
  Answered =>
    LET subs == response.meta.subreddits
        at == RecognisedAt(subredditParam)
    IN /\ \A i \in 1..Len(subs) : Includes(SUBREDDITS, subs[i])
       /\ subredditParam = <<"all">> => subs = SUBREDDITS
       /\ subredditParam # <<"all">> =>
            /\ Len(subs) = Cardinality(at)
            /\ \A j \in at :
                 subs[Cardinality({k \in at : k <= j})] = subredditParam[j]
       /\ Len(fetches) = Len(subs)
       /\ \A i \in 1..Len(subs) : fetches[i].subreddit = subs[i]

C7_Witness ==
  /\ Answered
  /\ Len(subredditParam) = 3
  /\ subredditParam[1] = " "
  /\ subredditParam[3] = ","
  /\ response.meta.subreddits = <<"ChatGPT">>

\* C8: a filter other than "all" with no entry that is a configured
\* subreddit ends in a 400 response with posts [] and an error message, and
\* no upstream fetch is issued.
C8_InvalidSubreddit ==
  (phase # "idle" /\ subredditParam # <<"all">>
     /\ RecognisedAt(subredditParam) = {}) =>
    /\ phase = "done"
    /\ response.status = 400
    /\ response.posts = <<>>
    /\ response.error # ""
    /\ fetches = <<>>
    /\ results = <<>>

C8_Witness ==
  /\ phase = "done"
  /\ response.status = 400
  /\ subredditParam = <<"ChatGPT", " ", "bogus">>

\* C9: the response is produced only after every fetch of the request has
\* settled, and every successful fetch's items are in the merged set.
C9_JoinAll ==
  Answered =>
    /\ Len(results) = Len(targetSubreddits)
    /\ \A i \in 1..Len(results) : results[i].status # "pending"
    /\ response.meta.count = Cardinality(FetchedIds)
    /\ Len(response.errors) + Cardinality(Fulfilled) = Len(targetSubreddits)

C9_Witness ==
  /\ Answered
  /\ Len(results) = 5
  /\ firstSettled = 1
  /\ results[1].status = "rejected"
  /\ Cardinality(Fulfilled) = 4
  /\ response.meta.count = 3

\* C10 as stated: of two items sharing an id the one that arrived first is
\* kept, so the items of the fetch that completed first all survive.
C10_Original ==
  (Answered /\ firstSettled \in Fulfilled /\ limit >= response.meta.count) =>
    \A k \in 1..Len(results[firstSettled].value) :
      FirstIn(firstSettled, results[firstSettled].value[k].id)
        \in Range(response.posts)

\* C10 amended: of two items sharing an id the one whose source comes first
\* in the target list is kept, whatever the order in which the fetches
\* completed.
C10_TargetOrder ==
  Answered =>
    \A n \in 1..Len(response.posts) :
      LET id == response.posts[n].id
      IN response.posts[n] = FirstIn(FirstSource(id), id)

C10_Witness ==
  /\ Answered
  /\ \E i, j \in Fulfilled :
       /\ i < j
       /\ firstSettled = j
       /\ \E k \in 1..Len(results[i].value), m \in 1..Len(results[j].value) :
            /\ results[i].value[k].id = results[j].value[m].id
            /\ results[i].value[k] # results[j].value[m]
            /\ results[i].value[k] \in Range(response.posts)
            /\ results[j].value[m] \notin Range(response.posts)

C12_Invalidation ==
  \A r \in Callers :
    \A i \in 1..Len(calls[r].results) :
      (calls[r].results[i].status = "rejected"
         /\ calls[r].results[i].reason[3] = 401) =>
        cachedToken # calls[r].fetches[i].token

\* the expiry getAccessToken computes for the exchange that issued a token
GrantExpiry(token) ==
  grants[token].now + grants[token].expires_in * MsPerSecond

\* C13: when overlapping requests both miss the cache and both exchange, in
\* every interleaving the cache holds a token with the expiry of the exchange
\* that issued it, every request that proceeds to fetch holds a token issued
\* by an exchange (its own, if it exchanged), and a request that starts while
\* more than 60 seconds remain on the cached token is served from the cache
\* without a further exchange.
C13_BenignRace ==
  /\ cachedToken # 0 =>
        /\ cachedToken \in 1..Len(grants)
        /\ tokenExpiresAt = GrantExpiry(cachedToken)
  /\ \A r \in Callers :
        LET c == calls[r]
        IN /\ (c.pc = "fetching" \/ c.response.hasMeta) =>
                /\ c.token \in 1..Len(grants)
                /\ c.exchanged => grants[c.token].now = c.now
                /\ \A i \in 1..Len(c.fetches) : c.fetches[i].token = c.token
           /\ (c.pc # "idle" /\ c.targetSubreddits # <<>> /\ c.seen # 0
                 /\ GrantExpiry(c.seen) - c.now > ExpiryMargin) =>
                (c.hit /\ ~c.exchanged /\ c.token = c.seen)

C13_Witness ==
  /\ Len(grants) = 2
  /\ grants[1].seen = 0
  /\ grants[2].seen = 0
  /\ grants[2].now < grants[1].now
  /\ \E r, o \in Callers :
       /\ calls[r].hit
       /\ calls[r].token = 2
       /\ calls[o].exchanged
       /\ calls[o].pc = "done"
       /\ calls[o].response.hasMeta

\* C14: when "all" is requested every source fetch is given
\* ceil(limit / number of targets), the least integer whose multiple by the
\* number of targets reaches the limit; for an explicit filter every source
\* fetch is given the limit itself.
C14_PerCategoryLimit ==
  \A i \in 1..Len(fetches) :
    LET n == Len(targetSubreddits)
        size == fetches[i].size
    IN IF subredditParam = <<"all">>
         THEN n = Len(SUBREDDITS) /\ size * n >= limit /\ (size - 1) * n < limit
         ELSE size = limit

C14_Witness ==
  /\ phase = "fetching"
  /\ subredditParam = <<"all">>
  /\ limit = 2
  /\ Len(fetches) = 5
  /\ \A i \in 1..Len(fetches) : fetches[i].size = 1

\* C15: for every value of the limit parameter and every listing upstream
\* sends, the response holds at most 100 posts, and an absent limit gives
\* the response of limit=50.
C15_Cap ==
  Answered =>
    /\ Len(response.posts) <= LimitCap
    /\ request.limit = <<>> =>
         response = aggregate(results, targetSubreddits, safeSort, 50)

\* the fetches issued for a subreddit
FetchesOf(sub) == {i \in 1..Len(fetches) : fetches[i].subreddit = sub}

\* C16 as stated: within one request each configured subreddit is fetched at
\* most once, for every filter including explicit lists.
C16_Original ==
  \A i \in 1..Len(SUBREDDITS) : Cardinality(FetchesOf(SUBREDDITS[i])) <= 1

\* C16 amended: within one request exactly one fetch is issued per entry of
\* the target list, whether it succeeds or fails: a subreddit is fetched once
\* for "all" and as many times as the explicit list names it.
C16_OncePerEntry ==
  /\ Len(fetches) = Len(targetSubreddits)
  /\ Len(results) = Len(fetches)
  /\ \A i \in 1..Len(fetches) : fetches[i].subreddit = targetSubreddits[i]
  /\ \A i \in 1..Len(SUBREDDITS) :
       Cardinality(FetchesOf(SUBREDDITS[i])) =
         IF phase = "idle" THEN 0
         ELSE IF subredditParam = <<"all">> THEN 1
         ELSE Cardinality({j \in RecognisedAt(subredditParam) :
                             subredditParam[j] = SUBREDDITS[i]})

C16_Witness ==
  /\ Answered
  /\ subredditParam = <<"ChatGPT", ",", "ChatGPT">>
  /\ Cardinality(FetchesOf("ChatGPT")) = 2
  /\ results[1].status = "rejected"
  /\ results[2].status = "fulfilled"
  /\ Len(response.errors) = 1

\* C17 as stated: without client id or secret (and so without a cached
\* token) every request ends with a 500 response with posts [] and an error
\* message, and neither an exchange nor a listing fetch is issued.
C17_Original ==
  ~credentials =>
    \A r \in Callers :
      calls[r].pc # "idle" =>
        /\ calls[r].pc = "done"
        /\ calls[r].response.status = 500
        /\ calls[r].response.posts = <<>>
        /\ calls[r].response.error # ""
        /\ ~calls[r].exchanged
        /\ calls[r].fetches = <<>>

\* C17 amended: without client id or secret every request whose filter
\* resolves to at least one subreddit ends with the 500 response, posts []
\* and the message of the missing credentials; a request whose filter
\* resolves to none ends with the 400 response before the token is asked
\* for; in both cases no exchange and no listing fetch is issued and the
\* cache stays empty.
C17_MissingCredentials ==
  ~credentials =>
    /\ cachedToken = 0
    /\ grants = <<>>
    /\ \A r \in Callers :
         calls[r].pc # "idle" =>
           /\ calls[r].pc = "done"
           /\ calls[r].response.posts = <<>>
           /\ ~calls[r].exchanged
           /\ calls[r].fetches = <<>>
           /\ IF calls[r].targetSubreddits = <<>>
                THEN calls[r].response = invalidSubreddit
                ELSE /\ calls[r].response.status = 500
                     /\ calls[r].response.error = credentialsMissing
                     /\ ~calls[r].response.hasMeta

C17_Witness ==
  /\ ~credentials
  /\ \E r, o \in Callers :
       /\ calls[r].pc = "done"
       /\ calls[r].targetSubreddits = <<"ChatGPT">>
       /\ calls[r].response.status = 500
       /\ calls[o].pc = "done"
       /\ calls[o].response.status = 400

\* the proxy's handler is suspended in an await on upstream
Suspended == proxy.pc \in {"headers", "text", "json"}

\* C18: every request of the proxy eventually gets a response: when upstream
\* does not complete, the 10-second timer aborts the fetch and the handler
\* answers 500 instead of hanging.
C18_Responds == Suspended ~> (proxy.pc = "done")

C20_SortFallback ==
  phase # "idle" =>
    LET effective == IF request.sort \in {"hot", "new", "top"}
                       THEN request.sort ELSE "hot"
    IN /\ safeSort = effective
       /\ Answered => response.meta.sort = effective
       /\ \A i \in 1..Len(fetches) :
            fetches[i].sort_type =
              IF effective = "new" THEN "created_utc" ELSE "score"

C20_Witness ==
  /\ Answered
  /\ request.sort = "rising"
  /\ response.meta.sort = "hot"
  /\ Len(fetches) = 2
  /\ \A i \in 1..Len(fetches) : fetches[i].sort_type = "score"

\* C21: a normalized item's thumbnail is the upstream value exactly when that
\* value begins with the scheme of an absolute address, http:// or https://,
\* and is none of the placeholders; otherwise, a missing thumbnail included,
\* it is null.
C21_Thumbnail ==
  normalized # <<>> =>
    normalized[1].thumbnail =
      IF /\ raw.thumbnail # Undefined
         /\ HasSchemePrefix(raw.thumbnail)
         /\ ~Includes(invalidThumbnails, raw.thumbnail)
        THEN raw.thumbnail
      ELSE Null

\* C22: once every call of fetchPosts has settled, and the call for the
\* current selection (the one started last) was answered with posts, the list
\* displayed is the answer to the selected subreddit filter and sort: the
\* answer to an earlier selection never replaces it.
C22_LatestSelectionShown ==
  (inflight = <<>> /\ latest = "ok") =>
    ui.posts = ApiPosts(ui.selectedSubreddit, ui.sortType)

\* C23: loading is true whenever a call of fetchPosts is in flight, and turns
\* false only when the last call in flight has settled.
C23_LoadingWhileInFlight == inflight # <<>> => ui.loading

\* C25: a call of fetchPosts that fails leaves the posts displayed, the counts
\* per subreddit and lastUpdated as they were (and with them the selection,
\* the switch and the countdown): it sets the error message and clears
\* loading, nothing else.
C25_FailureFrame ==
  [][\A i \in 1..Len(inflight) : \A reply \in ApiReplies(inflight[i].request) :
       (~reply.ok /\ Settled(i, reply)) =>
         /\ ui'.posts = ui.posts
         /\ ui'.subredditCounts = ui.subredditCounts
         /\ ui'.lastUpdated = ui.lastUpdated
         /\ ui'.selectedSubreddit = ui.selectedSubreddit
         /\ ui'.sortType = ui.sortType
         /\ ui'.autoRefresh = ui.autoRefresh
         /\ ui'.refreshCountdown = ui.refreshCountdown
         /\ ui'.error = messageOf(reply)
         /\ ui'.loading = FALSE]_vars

C25_Witness ==
  /\ inflight = <<>>
  /\ latest = "failed"
  /\ ui.error = <<"HTTP error ", 500>>
  /\ ~ui.loading
  /\ ui.posts = ApiPosts("all", "hot")
  /\ ui.subredditCounts = countsOf(ApiPosts("all", "hot"))
  /\ ui.lastUpdated # <<>>
  /\ ui.lastUpdated[1] < clock

\* C28: while auto-refresh is off, a firing of the refresh interval starts no
\* call of fetchPosts; a call is then started only by the mount, by the
\* selection of another subreddit or sort, or by a click on a refresh or
\* retry button.
C28_NoFetchWhileDisabled ==
  [][/\ (IntervalFires /\ ~ui.autoRefresh) =>
          UNCHANGED <<ui, inflight, callCount>>
     /\ (~ui.autoRefresh /\ callCount' > callCount) =>
          \/ Mount
          \/ \E s \in SubredditFilters : SelectSubreddit(s)
          \/ \E t \in SortTypes : SelectSort(t)
          \/ Refresh]_vars

C28_Witness ==
  /\ ~ui.autoRefresh
  /\ ui.selectedSubreddit = "chatgpt"
  /\ callCount = 2
  /\ Len(inflight) = 1
  /\ inflight[1].n = 2
  /\ ui.loading

\* C30: the refresh countdown stays within 1..AUTO_REFRESH_INTERVAL: a tick
\* takes one off, or from 1 goes back to AUTO_REFRESH_INTERVAL; a call of
\* fetchPosts that completes and the switching off of auto-refresh set it to
\* AUTO_REFRESH_INTERVAL; it is never 0 or negative.
C30_Countdown ==
  /\ [](ui.refreshCountdown \in 1..AUTO_REFRESH_INTERVAL)
  /\ [][/\ CountdownTick =>
            ui'.refreshCountdown =
              IF ui.refreshCountdown = 1 THEN AUTO_REFRESH_INTERVAL
              ELSE ui.refreshCountdown - 1
        /\ (\E i \in 1..Len(inflight) :
              \E reply \in ApiReplies(inflight[i].request) :
                reply.ok /\ Settled(i, reply)) =>
            ui'.refreshCountdown = AUTO_REFRESH_INTERVAL
        /\ (ToggleAutoRefresh /\ ui.autoRefresh) =>
            ui'.refreshCountdown = AUTO_REFRESH_INTERVAL
        /\ ui'.refreshCountdown \in
              {ui.refreshCountdown, ui.refreshCountdown - 1,
               AUTO_REFRESH_INTERVAL}]_vars

C30_Witness ==
  /\ ui.autoRefresh
  /\ ui.refreshCountdown = 1
  /\ latest = "ok"

\* C29: items with the same sort key (score for hot and top, createdAt for
\* new) are in the response in merge order: by the position of their source
\* in the target list, then by the upstream order within the source.
C29_TiesKeepMergeOrder ==
  Answered =>
    \A a, b \in 1..Len(response.posts) :
      (a < b /\ SortKey(response.posts[a]) = SortKey(response.posts[b])) =>
        BeforeInMerge(response.posts[a].id, response.posts[b].id)

C29_Witness ==
  /\ Answered
  /\ safeSort = "new"
  /\ Len(response.posts) = 2
  /\ response.posts[1].createdAt = response.posts[2].createdAt
  /\ response.posts[1].score < response.posts[2].score
  /\ FirstSource(response.posts[1].id) = 1
  /\ FirstSource(response.posts[2].id) = 2
  /\ Len(results[1].value) + Len(results[2].value) = 3

\* C26: a credentials exchange that fails (the token endpoint answers with a
\* status that is not ok, or the credentials are missing) leaves the token
\* cache as it was: no token or expiry is written, and an entry still cached
\* is neither cleared nor replaced.
C26_FailedExchangeFrame ==
  [][\A r \in Callers :
       (/\ calls'[r] # calls[r]
        /\ calls'[r].pc = "done"
        /\ calls'[r].response.error \in {credentialsMissing, exchangeFailed}) =>
         /\ cachedToken' = cachedToken
         /\ tokenExpiresAt' = tokenExpiresAt
         /\ grants' = grants]_vars

C26_Witness ==
  \E r \in Callers :
    /\ calls[r].pc = "done"
    /\ calls[r].exchanged
    /\ calls[r].seen = 1
    /\ calls[r].response = tokenFailure(exchangeFailed)
    /\ Len(grants) = 1
    /\ cachedToken = 1
    /\ tokenExpiresAt = GrantExpiry(1)

\* C27: in the OAuth route the filter is validated before authentication: a
\* request whose filter names no configured subreddit is answered 400 without
\* a credentials exchange, a cache read or a fetch, also when the credentials
\* are missing or the cache is empty; a valid request exchanges at most once,
\* at its start, and every fetch of its fan-out carries the one token it got.
C27_ValidationFirst ==
  /\ [](\A r \in Callers :
          /\ (calls[r].pc # "idle" /\ calls[r].targetSubreddits = <<>>) =>
                /\ calls[r].pc = "done"
                /\ calls[r].response.status = 400
                /\ ~calls[r].exchanged
                /\ ~calls[r].hit
                /\ calls[r].fetches = <<>>
          /\ calls[r].fetches # <<>> =>
                /\ Len(calls[r].fetches) = Len(calls[r].targetSubreddits)
                /\ calls[r].token # 0
                /\ \A i \in 1..Len(calls[r].fetches) :
                     calls[r].fetches[i].token = calls[r].token
                /\ calls[r].exchanged # calls[r].hit
                /\ calls[r].exchanged =>
                     grants[calls[r].token].now = calls[r].now)
  /\ [][\A r \in Callers :
          /\ (calls'[r].pc = "exchanging" /\ calls'[r] # calls[r]) =>
                calls[r].pc \in {"idle", "done"}
          /\ (calls'[r] # calls[r] /\ calls'[r].targetSubreddits = <<>>) =>
                UNCHANGED <<cachedToken, tokenExpiresAt, grants>>
          /\ (calls'[r] # calls[r] /\ Len(grants') > Len(grants)) =>
                /\ calls[r].pc = "exchanging"
                /\ calls'[r].pc = "fetching"
                /\ Len(grants') = Len(grants) + 1]_vars

C27_Witness ==
  /\ credentials
  /\ calls[1].pc = "fetching"
  /\ calls[1].exchanged
  /\ calls[1].seen = 1
  /\ Len(grants) = 2
  /\ Len(calls[1].fetches) = Len(SUBREDDITS)
  /\ \A i \in 1..Len(calls[1].fetches) : calls[1].fetches[i].token = 2

\* C24: a 401 answer to a request never discards from the cache a token other
\* than the one the request used: a newer token that a concurrent request
\* has stored in the meantime stays cached.
C24_OwnTokenOnly ==
  \A r \in DOMAIN visits : visits[r].dropped \in {0, visits[r].token}

====
